---- MODULE Spec2Model ----
(***************************************************************************)
(* The autonomous insight pipeline: perform_etl (src/etl.py),              *)
(* calculate_health_score (src/stats.py) and generate_visuals              *)
(* (src/visuals.py), run in the order of src/app.py lines 79-95.           *)
(*                                                                         *)
(* Representation of a DataFrame: a record                                 *)
(*     [kinds |-> <<dtype of column 1, ...>>, rows |-> <<row 1, ...>>]     *)
(* where a row is a tuple of cells, one per column.  A cell is <<>> for a  *)
(* missing value (NaN / None / NaT) and <<v>> for a value v.  Columns are  *)
(* named by their position.  A table is a collection of columns, so a      *)
(* table without columns has no rows.                                      *)
(*   "number"   v is the number times Scale (fixed point, exact: every     *)
(*              median, quartile and IQR bound of two passes over integer  *)
(*              inputs is a multiple of 1/Scale, and is exact in binary    *)
(*              floating point as well);                                   *)
(*   "object"   v is the rank of the string in sorted order: v < 0 is a    *)
(*              text that parses as a date, v = MissingLiteral is the      *)
(*              literal 'Missing', v > 0 is any other text;                *)
(*   "datetime" v is the timestamp in seconds.                             *)
(* pandas semantics are those of pandas 1.x / 2.x, where                   *)
(* to_datetime(errors='ignore') returns its input on a parse failure.      *)
(*                                                                         *)
(* Four specifications share the variables: Spec (the pipeline over small  *)
(* raw tables, run twice), SpecScore (calculate_health_score alone),       *)
(* SpecPairs (the pipeline over tables with several numeric columns) and   *)
(* SpecApp (the upload block of src/app.py, one action per script run).    *)
(***************************************************************************)
EXTENDS Integers, Sequences, FiniteSets, TLC

VARIABLES
    df_raw,              \* the table handed to perform_etl / calculate_health_score
    df,                  \* perform_etl's local df; df_clean once perform_etl returned
    duplicates_removed,  \* perform_etl's locals, the fields of etl_stats on return
    missing_imputed,
    outliers_handled,
    health_score,        \* <<>> until computed, then <<score in tenths>>
    figures,             \* the list generate_visuals returns
    pass,                \* 1: the raw table; 2: the cleaned table fed back
    pc,                  \* position in the pipeline
    uploaded_file,       \* src/app.py: what st.file_uploader returns, <<>> for None
    session_state        \* src/app.py: st.session_state

vars == <<df_raw, df, duplicates_removed, missing_imputed, outliers_handled,
          health_score, figures, pass, pc, uploaded_file, session_state>>

----------------------------------------------------------------------------
(* Bounds of the explored inputs *)

MaxCells == 4        \* general tables: rows * columns <= MaxCells
MaxCols == 2         \* general tables: columns
MaxNum == 2          \* numeric cells are 0..MaxNum or missing
MaxCat == 2          \* ordinary texts are 1..MaxCat
NumDates == 1        \* date texts are -NumDates..-1
MaxKeyedRows == 5    \* keyed tables: a distinct key column and a numeric column
MaxKeyedNum == 1     \* keyed tables: numeric cells are 0..MaxKeyedNum or missing
MaxCatCols == 2      \* category tables: columns
MaxScoreRows == 3    \* scoring inputs: rows of the raw table
MaxMissing == 8      \* scoring inputs: missing_imputed
MaxPairRows == 3     \* correlated tables: rows
MaxPairNum == 2      \* correlated tables: numeric cells are 0..MaxPairNum
MaxFileNames == 2    \* uploads: file names
MaxFileRows == 2     \* uploads: rows of the table in a file

Scale == 8 * 8

----------------------------------------------------------------------------
(* Cells, columns, tables *)

NA == <<>>

isnull(cell) == cell = NA

NCols(t) == Len(t.kinds)

NRows(t) == Len(t.rows)

\* DataFrame.empty: any axis of length 0
IsEmpty(t) == NRows(t) = 0 \/ NCols(t) = 0

\* df[col] as a sequence of cells
Col(t, c) == [i \in 1..NRows(t) |-> t.rows[i][c]]

\* the non-missing values of a column, in row order
RECURSIVE Present(_)
Present(cells) ==
    IF cells = <<>> THEN <<>>
    ELSE IF isnull(Head(cells)) THEN Present(Tail(cells))
    ELSE <<Head(cells)[1]>> \o Present(Tail(cells))

\* df[col].isnull().sum()
NullCount(t, c) == Cardinality({i \in 1..NRows(t) : isnull(t.rows[i][c])})

NumericCols(t) == {c \in 1..NCols(t) : t.kinds[c] = "number"}

\* the table with the cell x at row i, column c replaced by F(i, c, x)
MapCells(t, F(_, _, _)) ==
    [t EXCEPT !.rows = [i \in 1..NRows(t) |->
                          [c \in 1..NCols(t) |-> F(i, c, t.rows[i][c])]]]

RECURSIVE Insert(_, _)
Insert(x, sorted) ==
    IF sorted = <<>> THEN <<x>>
    ELSE IF x <= Head(sorted) THEN <<x>> \o sorted
    ELSE <<Head(sorted)>> \o Insert(x, Tail(sorted))

RECURSIVE Sort(_)
Sort(s) == IF s = <<>> THEN <<>> ELSE Insert(Head(s), Sort(Tail(s)))

\* the elements of a set of numbers in ascending order
RECURSIVE SortSet(_)
SortSet(S) ==
    IF S = {} THEN <<>>
    ELSE LET m == CHOOSE x \in S : \A y \in S : x <= y IN <<m>> \o SortSet(S \ {m})

RECURSIVE SumOver(_, _)
SumOver(S, f) ==
    IF S = {} THEN 0
    ELSE LET x == CHOOSE y \in S : TRUE IN f[x] + SumOver(S \ {x}, f)

----------------------------------------------------------------------------
(* perform_etl, stage 1: drop_duplicates *)

RECURSIVE KeepFirst(_, _)
KeepFirst(rows, seen) ==
    IF rows = <<>> THEN <<>>
    ELSE IF Head(rows) \in seen THEN KeepFirst(Tail(rows), seen)
    ELSE <<Head(rows)>> \o KeepFirst(Tail(rows), seen \cup {Head(rows)})

\* drop_duplicates(keep='last'): the last occurrence of each row survives
drop_duplicates_keep_last(t) ==
    LET Reverse(q) == [i \in 1..Len(q) |-> q[Len(q) + 1 - i]]
    IN  IF IsEmpty(t) THEN t
        ELSE [t EXCEPT !.rows = Reverse(KeepFirst(Reverse(t.rows), {}))]

\* DataFrame.drop_duplicates(): an empty frame is returned as a copy, otherwise
\* the rows not equal to an earlier row are kept (missing equals missing)
drop_duplicates(t) ==
    IF IsEmpty(t) THEN t ELSE [t EXCEPT !.rows = KeepFirst(t.rows, {})]

----------------------------------------------------------------------------
(* perform_etl, stage 2: pd.to_datetime(df[col], errors='ignore') *)

IsDateText(s) == s < 0

\* the timestamp a date text parses to
ParseDate(s) == s * 86400

\* whether the whole column parses: every value that is present is a date text
Parses(t, c) == \A i \in 1..NRows(t) :
                    isnull(t.rows[i][c]) \/ IsDateText(t.rows[i][c][1])

to_datetime(t) ==
    LET conv(c) == t.kinds[c] = "object" /\ Parses(t, c)
        cell(i, c, x) == IF conv(c) /\ ~isnull(x) THEN <<ParseDate(x[1])>> ELSE x
        u == MapCells(t, cell)
    IN  [u EXCEPT !.kinds = [c \in 1..NCols(t) |->
                               IF conv(c) THEN "datetime" ELSE t.kinds[c]]]

----------------------------------------------------------------------------
(* perform_etl, stage 3: imputation *)

MissingLiteral == 0

\* Series.median(): skips missing values; NaN for no values
median(cells) ==
    LET s == Sort(Present(cells))
        n == Len(s)
    IN  IF n = 0 THEN NA
        ELSE IF n % 2 = 1 THEN <<s[(n + 1) \div 2]>>
        ELSE <<(s[n \div 2] + s[(n \div 2) + 1]) \div 2>>

Count(cells, v) == Cardinality({i \in 1..Len(cells) : cells[i] = <<v>>})

\* Series.mode(): the most frequent values that are present, sorted ascending
mode(cells) ==
    LET vals == {cells[i][1] : i \in {j \in 1..Len(cells) : ~isnull(cells[j])}}
        best == {v \in vals : \A w \in vals : Count(cells, w) <= Count(cells, v)}
    IN  SortSet(best)

\* the value fillna receives for a column with a missing value
FillValue(t, c) ==
    LET cells == Col(t, c)
    IN  IF t.kinds[c] = "number" THEN median(cells)
        ELSE IF t.kinds[c] = "datetime"
             THEN (IF mode(cells) # <<>> THEN <<mode(cells)[1]>> ELSE NA)
        ELSE (IF mode(cells) # <<>> THEN <<mode(cells)[1]>> ELSE <<MissingLiteral>>)

\* the sum of df[col].isnull().sum() over the columns
CountMissing(t) == SumOver(1..NCols(t), [c \in 1..NCols(t) |-> NullCount(t, c)])

impute(t) ==
    LET cell(i, c, x) == IF isnull(x) THEN FillValue(t, c) ELSE x
    IN  MapCells(t, cell)

----------------------------------------------------------------------------
(* perform_etl, stage 4: outlier capping *)

\* Series.quantile(k/4), linear interpolation over the values that are present
quantile(cells, k) ==
    LET s == Sort(Present(cells))
        n == Len(s)
        pos == k * (n - 1)
        lo == pos \div 4
        frac == pos % 4
    IN  IF n = 0 THEN NA
        ELSE IF frac = 0 THEN <<s[lo + 1]>>
        ELSE <<s[lo + 1] + (frac * (s[lo + 2] - s[lo + 1])) \div 4>>

iqr(t, c) == quantile(Col(t, c), 3)[1] - quantile(Col(t, c), 1)[1]

\* lower_bound and upper_bound; NaN when the column has no value
lower_bound(t, c) ==
    IF quantile(Col(t, c), 1) = NA THEN NA
    ELSE <<quantile(Col(t, c), 1)[1] - (3 * iqr(t, c)) \div 2>>

upper_bound(t, c) ==
    IF quantile(Col(t, c), 3) = NA THEN NA
    ELSE <<quantile(Col(t, c), 3)[1] + (3 * iqr(t, c)) \div 2>>

\* (df[col] < lower_bound) | (df[col] > upper_bound); a comparison with NaN is False
IsOutlier(t, c, x) ==
    /\ ~isnull(x)
    /\ lower_bound(t, c) # NA
    /\ (x[1] < lower_bound(t, c)[1] \/ x[1] > upper_bound(t, c)[1])

outliers_count(t, c) ==
    Cardinality({i \in 1..NRows(t) : IsOutlier(t, c, t.rows[i][c])})

CountOutliers(t) ==
    SumOver(NumericCols(t), [c \in NumericCols(t) |-> outliers_count(t, c)])

\* the second np.where reads the column as it was and undoes the lower cap
cap_upper_only(t) ==
    LET cell(i, c, x) ==
            IF t.kinds[c] # "number" \/ isnull(x) \/ lower_bound(t, c) = NA THEN x
            ELSE IF x[1] > upper_bound(t, c)[1] THEN upper_bound(t, c)
            ELSE x
    IN  MapCells(t, cell)

\* the two np.where assignments
cap(t) ==
    LET cell(i, c, x) ==
            IF t.kinds[c] # "number" \/ isnull(x) \/ lower_bound(t, c) = NA THEN x
            ELSE IF x[1] < lower_bound(t, c)[1] THEN lower_bound(t, c)
            ELSE IF x[1] > upper_bound(t, c)[1] THEN upper_bound(t, c)
            ELSE x
    IN  MapCells(t, cell)

----------------------------------------------------------------------------
(* calculate_health_score (src/stats.py) *)

etl_stats == [duplicates_removed |-> duplicates_removed,
              missing_imputed |-> missing_imputed,
              outliers_handled |-> outliers_handled]

Min(a, b) == IF a <= b THEN a ELSE b

Max(a, b) == IF a >= b THEN a ELSE b

\* round(num / den) for den > 0, halves to the even neighbour
RoundHalfEven(num, den) ==
    LET q == num \div den
        r == num - q * den
    IN  IF 2 * r < den THEN q
        ELSE IF 2 * r > den THEN q + 1
        ELSE IF q % 2 = 0 THEN q ELSE q + 1

\* the clamped, rounded score with the missing penalty signed by missing_sign
\* and the duplicate penalty taken over dup_rows rows
ScoreOver(df_original, stats, missing_sign, dup_rows) ==
    LET total_cells == NRows(df_original) * NCols(df_original)
        total_rows == NRows(df_original)
        numeric_cells == NRows(df_original) * Cardinality(NumericCols(df_original))
        nc == IF numeric_cells > 0 THEN numeric_cells ELSE 1
        den == total_cells * total_rows * nc
        missing_penalty == 400 * stats.missing_imputed * total_rows * nc
        duplicate_penalty == 300 * dup_rows * total_cells * nc
        outlier_penalty == IF numeric_cells > 0
                           THEN 300 * stats.outliers_handled * total_cells * total_rows
                           ELSE 0
        score == 1000 * den
                   - (missing_sign * missing_penalty + duplicate_penalty + outlier_penalty)
    IN  Max(0, Min(1000, RoundHalfEven(score, den)))

\* the guard for an empty table answers -1, a marker outside the range
calculate_health_score_marker(df_original, df_cleaned, stats) ==
    IF NRows(df_original) * NCols(df_original) = 0 \/ NRows(df_original) = 0 THEN 0 - 1
    ELSE ScoreOver(df_original, stats, 1, stats.duplicates_removed)

\* the duplicate penalty is taken from the rows that were kept
calculate_health_score_kept_rows(df_original, df_cleaned, stats) ==
    IF NRows(df_original) * NCols(df_original) = 0 \/ NRows(df_original) = 0 THEN 0
    ELSE ScoreOver(df_original, stats, 1, NRows(df_cleaned))

\* the missing penalty is added instead of subtracted
calculate_health_score_sign(df_original, df_cleaned, stats) ==
    IF NRows(df_original) * NCols(df_original) = 0 \/ NRows(df_original) = 0 THEN 0
    ELSE ScoreOver(df_original, stats, 0 - 1, stats.duplicates_removed)

\* The score in tenths of a point: round(score, 1) of
\*   100 - (missing / total_cells * 40 + duplicates / total_rows * 30
\*          + outliers / numeric_cells * 30),
\* computed over the common denominator, then max(0, min(100, .)).
calculate_health_score(df_original, df_cleaned, stats) ==
    LET total_cells == NRows(df_original) * NCols(df_original)
        total_rows == NRows(df_original)
        numeric_cells == NRows(df_original) * Cardinality(NumericCols(df_original))
        nc == IF numeric_cells > 0 THEN numeric_cells ELSE 1
        den == total_cells * total_rows * nc
        missing_penalty == 400 * stats.missing_imputed * total_rows * nc
        duplicate_penalty == 300 * stats.duplicates_removed * total_cells * nc
        outlier_penalty == IF numeric_cells > 0
                           THEN 300 * stats.outliers_handled * total_cells * total_rows
                           ELSE 0
        score == 1000 * den - (missing_penalty + duplicate_penalty + outlier_penalty)
    IN  IF total_cells = 0 \/ total_rows = 0 THEN 0
        ELSE Max(0, Min(1000, RoundHalfEven(score, den)))

----------------------------------------------------------------------------
(* generate_visuals (src/visuals.py) *)

bar_max_categories == 20

pie_max_categories == 5

box_max_columns == 5

\* numeric_df.columns and cat_df.columns, in column order
numeric_columns(t) == SortSet(NumericCols(t))

cat_columns(t) == SortSet({c \in 1..NCols(t) : t.kinds[c] = "object"})

\* Series.nunique(): the distinct values that are present
nunique(t, c) == Cardinality({t.rows[i][c] : i \in 1..NRows(t)} \ {NA})

RECURSIVE Gcd(_, _)
Gcd(a, b) == IF b = 0 THEN a ELSE Gcd(b, a % b)

RECURSIVE GcdAll(_)
GcdAll(s) == IF s = <<>> THEN 0 ELSE Gcd(Head(s), GcdAll(Tail(s)))

RECURSIVE SeqSum(_)
SeqSum(s) == IF s = <<>> THEN 0 ELSE Head(s) + SeqSum(Tail(s))

\* the values moved to start at 0: variances and correlations do not change
Shifted(s) == LET lo == Sort(s)[1] IN [i \in 1..Len(s) |-> s[i] - lo]

\* the values of a column in the table's smallest unit, starting at 0
InUnits(t, c) ==
    LET all == [k \in 1..Len(numeric_columns(t)) |->
                  GcdAll(Shifted(Present(Col(t, numeric_columns(t)[k]))))]
        g == GcdAll(all)
        s == Shifted(Present(Col(t, c)))
    IN  IF g = 0 THEN s ELSE [i \in 1..Len(s) |-> s[i] \div g]

\* n * sum(x*y) - sum(x) * sum(y): n*(n-1) times the sample covariance
SumProd(xs, ys) ==
    Len(xs) * SeqSum([i \in 1..Len(xs) |-> xs[i] * ys[i]]) - SeqSum(xs) * SeqSum(ys)

\* DataFrame.var(): defined for two values or more
VarDefined(t, c) == Len(Present(Col(t, c))) >= 2

\* var(a) < var(b), both defined
VarLess(t, a, b) ==
    LET xa == InUnits(t, a)
        xb == InUnits(t, b)
    IN  SumProd(xa, xa) * (Len(xb) * (Len(xb) - 1))
          < SumProd(xb, xb) * (Len(xa) * (Len(xa) - 1))

\* the first element of the sequence that no other element beats
FirstBest(s, Less(_, _)) ==
    s[CHOOSE i \in 1..Len(s) :
        /\ \A j \in 1..Len(s) : ~Less(s[i], s[j])
        /\ \A j \in 1..(i - 1) : Less(s[j], s[i])]

\* the rows where both columns have a value, as the two value sequences
PairRows(t, a, b) == {i \in 1..NRows(t) : ~isnull(t.rows[i][a]) /\ ~isnull(t.rows[i][b])}

PairVals(t, a, b) ==
    LET I == SortSet(PairRows(t, a, b))
        xs == [k \in 1..Len(I) |-> t.rows[I[k]][a][1]]
        ys == [k \in 1..Len(I) |-> t.rows[I[k]][b][1]]
        unit(s) == LET sh == Shifted(s)
                       g == GcdAll(sh)
                   IN  IF g = 0 THEN sh ELSE [i \in 1..Len(sh) |-> sh[i] \div g]
    IN  IF I = <<>> THEN <<<<>>, <<>>>> ELSE <<unit(xs), unit(ys)>>

\* corr[a][b] is a number (not NaN)
CorrDefined(t, a, b) ==
    LET p == PairVals(t, a, b)
    IN  Len(p[1]) >= 2 /\ SumProd(p[1], p[1]) > 0 /\ SumProd(p[2], p[2]) > 0

\* corr.abs()[a][b] squared, as <<numerator, denominator>>
CorrSq(t, a, b) ==
    LET p == PairVals(t, a, b)
        sxy == SumProd(p[1], p[2])
    IN  <<sxy * sxy, SumProd(p[1], p[1]) * SumProd(p[2], p[2])>>

\* corr.abs().unstack() with the entries < 1 kept (a comparison with NaN is
\* False): the entries in unstacked order, each with its squared value
corr_unstacked(t) ==
    LET cols == numeric_columns(t)
        n == Len(cols)
        all == [k \in 1..(n * n) |-> <<cols[((k - 1) \div n) + 1], cols[((k - 1) % n) + 1]>>]
        defined == [k \in 1..(n * n) |-> CorrDefined(t, all[k][1], all[k][2])]
        sq == [k \in 1..(n * n) |->
                 IF defined[k] THEN CorrSq(t, all[k][1], all[k][2]) ELSE <<0, 1>>]
        order == SortSet({k \in 1..(n * n) : defined[k] /\ sq[k][1] < sq[k][2]})
    IN  [j \in 1..Len(order) |-> [pair |-> all[order[j]], sq |-> sq[order[j]]]]

\* a / b < c / d for a, c >= 0 and b, d > 0, by continued fractions (the cross
\* products may exceed the integer range)
RECURSIVE FracLess(_, _, _, _)
FracLess(a, b, c, d) ==
    IF a \div b # c \div d THEN a \div b < c \div d
    ELSE IF c % d = 0 THEN FALSE
    ELSE IF a % b = 0 THEN TRUE
    ELSE FracLess(d, c % d, b, a % b)

\* corr_unstacked.idxmax(): the first pair of maximal absolute correlation
max_corr_idx(series) ==
    series[CHOOSE i \in 1..Len(series) :
        /\ \A j \in 1..Len(series) :
              ~FracLess(series[i].sq[1], series[i].sq[2], series[j].sq[1], series[j].sq[2])
        /\ \A j \in 1..(i - 1) :
              FracLess(series[j].sq[1], series[j].sq[2], series[i].sq[1], series[i].sq[2])].pair

Fig(type, cols) == [type |-> type, cols |-> cols]

\* numeric_df.var().idxmax(): NaN when no column has a variance, and px.histogram
\* then rejects NaN as a column name
HistogramRaises(t) ==
    /\ NumericCols(t) # {} /\ NRows(t) > 0
    /\ \A c \in NumericCols(t) : ~VarDefined(t, c)

\* the density contour is appended with the scatter plot, before the box plot
generate_visuals_contour_early(t) ==
    LET num == numeric_columns(t)
        cat == cat_columns(t)
        numeric_empty == num = <<>> \/ NRows(t) = 0
        cat_empty == cat = <<>> \/ NRows(t) = 0
        with_var == SelectSeq(num, LAMBDA c : VarDefined(t, c))
        target_col == FirstBest(with_var, LAMBDA a, b : VarLess(t, a, b))
        valid_cat_cols == SelectSeq(cat, LAMBDA c :
                              nunique(t, c) > 1 /\ nunique(t, c) <= bar_max_categories)
        valid_pie_cols == SelectSeq(cat, LAMBDA c :
                              nunique(t, c) > 1 /\ nunique(t, c) <= pie_max_categories)
        target_cat == FirstBest(valid_cat_cols, LAMBDA a, b : nunique(t, a) < nunique(t, b))
        pie_cat == FirstBest(valid_pie_cols, LAMBDA a, b : nunique(t, a) > nunique(t, b))
        heatmap == IF Len(num) > 1 THEN <<Fig("heatmap", num)>> ELSE <<>>
        histogram == IF ~numeric_empty THEN <<Fig("histogram", <<target_col>>)>> ELSE <<>>
        scatter(series) == IF Len(num) > 1 /\ series # <<>>
                           THEN <<Fig("scatter", max_corr_idx(series))>> ELSE <<>>
        box == IF Len(num) > 0
               THEN <<Fig("box", SubSeq(num, 1, Min(box_max_columns, Len(num))))>>
               ELSE <<>>
        bar == IF ~cat_empty /\ valid_cat_cols # <<>>
               THEN <<Fig("bar", <<target_cat>>)>> ELSE <<>>
        pie == IF ~cat_empty /\ valid_pie_cols # <<>>
               THEN <<Fig("pie", <<pie_cat>>)>> ELSE <<>>
        violin == IF Len(num) > 0
                  THEN <<Fig("violin", <<num[Min(1, Len(num) - 1) + 1]>>)>> ELSE <<>>
        line == IF Len(num) > 0 THEN <<Fig("line", <<num[1]>>)>> ELSE <<>>
        contour(series) == IF Len(num) > 1 /\ series # <<>>
                           THEN <<Fig("contour", max_corr_idx(series))>> ELSE <<>>
        appended(series) == heatmap \o histogram \o scatter(series) \o contour(series)
                              \o box \o bar \o pie \o violin \o line
    IN  IF HistogramRaises(t) THEN [raised |-> TRUE, figures |-> <<>>]
        ELSE [raised |-> FALSE,
              figures |-> CHOOSE f \in {appended(series) : series \in
                              {IF Len(num) > 1 THEN corr_unstacked(t) ELSE <<>>}} : TRUE]

\* [raised |-> whether the call raised, figures |-> the list returned]
generate_visuals(t) ==
    LET num == numeric_columns(t)
        cat == cat_columns(t)
        numeric_empty == num = <<>> \/ NRows(t) = 0
        cat_empty == cat = <<>> \/ NRows(t) = 0
        with_var == SelectSeq(num, LAMBDA c : VarDefined(t, c))
        target_col == FirstBest(with_var, LAMBDA a, b : VarLess(t, a, b))
        valid_cat_cols == SelectSeq(cat, LAMBDA c :
                              nunique(t, c) > 1 /\ nunique(t, c) <= bar_max_categories)
        valid_pie_cols == SelectSeq(cat, LAMBDA c :
                              nunique(t, c) > 1 /\ nunique(t, c) <= pie_max_categories)
        target_cat == FirstBest(valid_cat_cols, LAMBDA a, b : nunique(t, a) < nunique(t, b))
        pie_cat == FirstBest(valid_pie_cols, LAMBDA a, b : nunique(t, a) > nunique(t, b))
        heatmap == IF Len(num) > 1 THEN <<Fig("heatmap", num)>> ELSE <<>>
        histogram == IF ~numeric_empty THEN <<Fig("histogram", <<target_col>>)>> ELSE <<>>
        scatter(series) == IF Len(num) > 1 /\ series # <<>>
                           THEN <<Fig("scatter", max_corr_idx(series))>> ELSE <<>>
        box == IF Len(num) > 0
               THEN <<Fig("box", SubSeq(num, 1, Min(box_max_columns, Len(num))))>>
               ELSE <<>>
        bar == IF ~cat_empty /\ valid_cat_cols # <<>>
               THEN <<Fig("bar", <<target_cat>>)>> ELSE <<>>
        pie == IF ~cat_empty /\ valid_pie_cols # <<>>
               THEN <<Fig("pie", <<pie_cat>>)>> ELSE <<>>
        violin == IF Len(num) > 0
                  THEN <<Fig("violin", <<num[Min(1, Len(num) - 1) + 1]>>)>> ELSE <<>>
        line == IF Len(num) > 0 THEN <<Fig("line", <<num[1]>>)>> ELSE <<>>
        contour(series) == IF Len(num) > 1 /\ series # <<>>
                           THEN <<Fig("contour", max_corr_idx(series))>> ELSE <<>>
        appended(series) == heatmap \o histogram \o scatter(series) \o box \o bar \o pie
                              \o violin \o line \o contour(series)
    IN  IF HistogramRaises(t) THEN [raised |-> TRUE, figures |-> <<>>]
        ELSE [raised |-> FALSE,
              figures |-> CHOOSE f \in {appended(series) : series \in
                              {IF Len(num) > 1 THEN corr_unstacked(t) ELSE <<>>}} : TRUE]

----------------------------------------------------------------------------
(* The explored raw tables *)

Cells(kind) ==
    IF kind = "number" THEN {NA} \cup {<<Scale * n>> : n \in 0..MaxNum}
    ELSE {NA} \cup {<<s>> : s \in ((0 - NumDates)..(0 - 1)) \cup (1..MaxCat)}

\* column dtypes as read_csv infers them: float64 / int64, or object
Kinds == {"number", "object"}

\* every table of r rows with the given column kinds
Tables(r, kinds) ==
    LET RowSet == {row \in [1..Len(kinds) -> UNION {Cells(k) : k \in Kinds}] :
                     \A c \in 1..Len(kinds) : row[c] \in Cells(kinds[c])}
    IN  {[kinds |-> kinds, rows |-> rows] : rows \in [1..r -> RowSet]}

GeneralTables ==
    UNION {UNION {Tables(IF n = 0 THEN 0 ELSE r, kinds) : kinds \in [1..n -> Kinds]} :
             <<r, n>> \in {x \in (0..MaxCells) \X (0..MaxCols) : x[1] * x[2] <= MaxCells}}

\* a key column of distinct texts and a numeric column
KeyedTables ==
    UNION {{[kinds |-> <<"object", "number">>,
             rows |-> [i \in 1..r |-> <<<<i>>, nums[i]>>]] :
               nums \in [1..r -> {NA} \cup {<<Scale * n>> : n \in 0..MaxKeyedNum}]} :
             r \in 1..MaxKeyedRows}

\* columns of texts with a chosen number of distinct values each, around the
\* limits of the bar and pie rules: column j of row i holds text min(i, count[j])
CategoryCounts == {1, 2, pie_max_categories, pie_max_categories + 1,
                   bar_max_categories, bar_max_categories + 1}

CategoryTables ==
    {[kinds |-> [j \in DOMAIN count |-> "object"],
      rows |-> [i \in 1..(bar_max_categories + 1) |->
                  [j \in DOMAIN count |-> <<Min(i, count[j])>>]]] :
        count \in UNION {[1..n -> CategoryCounts] : n \in 1..MaxCatCols}}

RawTables == GeneralTables \cup KeyedTables \cup CategoryTables

----------------------------------------------------------------------------
(* The pipeline *)

\* st.session_state of a new session, after src/app.py lines 38-39
NewSession ==
    [uploaded_file_name |-> <<>>, data_processed |-> FALSE, results |-> <<>>]

Init ==
    /\ df_raw \in RawTables
    /\ df = df_raw
    /\ duplicates_removed = 0
    /\ missing_imputed = 0
    /\ outliers_handled = 0
    /\ health_score = <<>>
    /\ figures = <<>>
    /\ pass = 1
    /\ pc = "dedup"
    /\ uploaded_file = <<>>
    /\ session_state = NewSession

EtlDedup ==
    /\ pc = "dedup"
    /\ df' = drop_duplicates(df)
    /\ duplicates_removed' = NRows(df) - NRows(drop_duplicates(df))
    /\ pc' = "to_datetime"
    /\ UNCHANGED <<df_raw, missing_imputed, outliers_handled, health_score, figures, pass>>
    /\ UNCHANGED <<uploaded_file, session_state>>

EtlToDatetime ==
    /\ pc = "to_datetime"
    /\ df' = to_datetime(df)
    /\ pc' = "impute"
    /\ UNCHANGED <<df_raw, duplicates_removed, missing_imputed, outliers_handled,
                   health_score, figures, pass>>
    /\ UNCHANGED <<uploaded_file, session_state>>

EtlImpute ==
    /\ pc = "impute"
    /\ missing_imputed' = CountMissing(df)
    /\ df' = impute(df)
    /\ pc' = "cap"
    /\ UNCHANGED <<df_raw, duplicates_removed, outliers_handled, health_score, figures, pass>>
    /\ UNCHANGED <<uploaded_file, session_state>>

EtlCap ==
    /\ pc = "cap"
    /\ outliers_handled' = CountOutliers(df)
    /\ df' = cap(df)
    /\ pc' = "score"
    /\ UNCHANGED <<df_raw, duplicates_removed, missing_imputed, health_score, figures, pass>>
    /\ UNCHANGED <<uploaded_file, session_state>>

\* src/app.py line 89
CalcHealth ==
    /\ pc = "score"
    /\ health_score' = <<calculate_health_score(df_raw, df, etl_stats)>>
    /\ pc' = "visuals"
    /\ UNCHANGED <<df_raw, df, duplicates_removed, missing_imputed, outliers_handled,
                   figures, pass>>
    /\ UNCHANGED <<uploaded_file, session_state>>

\* src/app.py line 95
GenerateVisuals ==
    /\ pc = "visuals"
    /\ LET result == generate_visuals(df)
       IN  /\ figures' = result.figures
           /\ pc' = IF result.raised THEN "error" ELSE "done"
    /\ UNCHANGED <<df_raw, df, duplicates_removed, missing_imputed, outliers_handled,
                   health_score, pass>>
    /\ UNCHANGED <<uploaded_file, session_state>>

\* the cleaned table is fed back through the pipeline as a raw table
Refeed ==
    /\ pc \in {"done", "error"}
    /\ pass = 1
    /\ df_raw' = df
    /\ df' = df
    /\ duplicates_removed' = 0
    /\ missing_imputed' = 0
    /\ outliers_handled' = 0
    /\ health_score' = <<>>
    /\ figures' = <<>>
    /\ pass' = 2
    /\ pc' = "dedup"
    /\ UNCHANGED <<uploaded_file, session_state>>

Next ==
    \/ EtlDedup
    \/ EtlToDatetime
    \/ EtlImpute
    \/ EtlCap
    \/ CalcHealth
    \/ GenerateVisuals
    \/ Refeed

Spec == Init /\ [][Next]_vars

----------------------------------------------------------------------------
(* calculate_health_score over arbitrary shapes and metrics *)

\* a raw table of r rows with the given column kinds
ShapeTable(r, kinds) ==
    [kinds |-> kinds,
     rows |-> [i \in 1..r |-> [c \in 1..Len(kinds) |->
                 IF kinds[c] = "number" THEN <<Scale * i>> ELSE <<i>>]]]

ScoreTables ==
    UNION {{ShapeTable(IF n = 0 THEN 0 ELSE r, kinds) : kinds \in [1..n -> Kinds]} :
             <<r, n>> \in (0..MaxScoreRows) \X (0..MaxCols)}

InitScore ==
    /\ df_raw \in ScoreTables
    /\ df = df_raw
    /\ duplicates_removed \in 0..NRows(df_raw)
    /\ missing_imputed = 0
    /\ outliers_handled \in 0..(NRows(df_raw) * Cardinality(NumericCols(df_raw)))
    /\ health_score = <<>>
    /\ figures = <<>>
    /\ pass = 1
    /\ pc = "score"
    /\ uploaded_file = <<>>
    /\ session_state = NewSession

\* the score for a metrics record with more missing values, all else equal
ScoreMoreMissing ==
    /\ pc = "scored"
    /\ \E m \in (missing_imputed + 1)..MaxMissing :
          /\ missing_imputed' = m
          /\ health_score' = <<calculate_health_score(df_raw, df,
                                   [etl_stats EXCEPT !.missing_imputed = m])>>
    /\ UNCHANGED <<df_raw, df, duplicates_removed, outliers_handled, figures, pass, pc>>
    /\ UNCHANGED <<uploaded_file, session_state>>

ScoreOnce ==
    /\ pc = "score"
    /\ health_score' = <<calculate_health_score(df_raw, df, etl_stats)>>
    /\ pc' = "scored"
    /\ UNCHANGED <<df_raw, df, duplicates_removed, missing_imputed, outliers_handled,
                   figures, pass>>
    /\ UNCHANGED <<uploaded_file, session_state>>

NextScore == ScoreOnce \/ ScoreMoreMissing

SpecScore == InitScore /\ [][NextScore]_vars

----------------------------------------------------------------------------
(* The pipeline over tables with several numeric columns *)

\* a numeric column counting the rows, a numeric column and a column of two texts
PairTables ==
    {[kinds |-> <<"number", "number", "object">>,
      rows |-> [i \in 1..MaxPairRows |->
                  <<<<Scale * (i - 1)>>, <<Scale * b[i]>>, <<(i % 2) + 1>>>>]] :
        b \in [1..MaxPairRows -> 0..MaxPairNum]}

\* a numeric column counting the rows, a numeric column and a numeric 0 / 1 flag
TripleTables ==
    {[kinds |-> <<"number", "number", "number">>,
      rows |-> [i \in 1..MaxPairRows |->
                  <<<<Scale * (i - 1)>>, <<Scale * x[1][i]>>, <<Scale * x[2][i]>>>>]] :
        x \in [1..MaxPairRows -> 0..MaxPairNum] \X [1..MaxPairRows -> 0..1]}

InitPairs ==
    /\ df_raw \in PairTables \cup TripleTables
    /\ df = df_raw
    /\ duplicates_removed = 0
    /\ missing_imputed = 0
    /\ outliers_handled = 0
    /\ health_score = <<>>
    /\ figures = <<>>
    /\ pass = 1
    /\ pc = "dedup"
    /\ uploaded_file = <<>>
    /\ session_state = NewSession

\* one run of the pipeline, as in src/app.py
NextPairs ==
    \/ EtlDedup
    \/ EtlToDatetime
    \/ EtlImpute
    \/ EtlCap
    \/ CalcHealth
    \/ GenerateVisuals

SpecPairs == InitPairs /\ [][NextPairs]_vars

----------------------------------------------------------------------------
(* The upload block of src/app.py: one action is one run of the script *)

\* an uploaded file: its name and what it holds, <<>> when it cannot be read
\* as a table and <<table>> otherwise
FileTables ==
    {[kinds |-> <<"number">>, rows |-> [i \in 1..MaxFileRows |-> <<cells[i]>>]] :
        cells \in [1..MaxFileRows -> {NA} \cup {<<Scale * n>> : n \in 0..1}]}

Files == [name : 1..MaxFileNames, content : {<<>>} \cup {<<t>> : t \in FileTables}]

\* load_data: (df, None), or (None, message) when reading raises
load_data(file) ==
    IF file.content = <<>> THEN [df |-> <<>>, err |-> TRUE]
    ELSE [df |-> file.content, err |-> FALSE]

\* perform_etl as one call: the cleaned table and etl_stats
perform_etl(t) ==
    LET deduplicated == drop_duplicates(t)
        converted == to_datetime(deduplicated)
        imputed == impute(converted)
    IN  [df |-> cap(imputed),
         etl_stats |-> [duplicates_removed |-> NRows(t) - NRows(deduplicated),
                        missing_imputed |-> CountMissing(converted),
                        outliers_handled |-> CountOutliers(imputed)]]

\* generate_descriptive_stats: None without numeric columns, else one row for
\* each numeric column; Mean is <<sum, count>> in lowest terms, and Std Dev,
\* Skewness and Kurtosis, functions of the same values, are left out
generate_descriptive_stats(t) ==
    LET row(c) ==
            LET s == Sort(Present(Col(t, c)))
                g == Gcd(SeqSum(s), Len(s))
            IN  [Column |-> c,
                 Mean |-> IF s = <<>> THEN NA ELSE <<SeqSum(s) \div g, Len(s) \div g>>,
                 Median |-> median(Col(t, c)),
                 Min |-> IF s = <<>> THEN NA ELSE <<s[1]>>,
                 Max |-> IF s = <<>> THEN NA ELSE <<s[Len(s)]>>]
    IN  IF NumericCols(t) = {} THEN <<>>
        ELSE <<[k \in 1..Len(numeric_columns(t)) |-> row(numeric_columns(t)[k])]>>

\* lines 79-95 for a loaded table: whether a call raised, and the five values
\* lines 101-105 store
Process(df_loaded) ==
    LET etl == perform_etl(df_loaded)
        visuals == generate_visuals(etl.df)
    IN  [raised |-> visuals.raised,
         results |-> [df_clean |-> etl.df,
                      etl_stats |-> etl.etl_stats,
                      stats_df |-> generate_descriptive_stats(etl.df),
                      health_score |-> calculate_health_score(df_loaded, etl.df, etl.etl_stats),
                      figures |-> visuals.figures]]

NoTable == [kinds |-> <<>>, rows |-> <<>>]

InitApp ==
    /\ df_raw = NoTable
    /\ df = NoTable
    /\ duplicates_removed = 0
    /\ missing_imputed = 0
    /\ outliers_handled = 0
    /\ health_score = <<>>
    /\ figures = <<>>
    /\ pass = 1
    /\ pc = "waiting"
    /\ uploaded_file = <<>>
    /\ session_state = NewSession

\* the script's locals when the run assigns none of them
NoLocals ==
    /\ df_raw' = NoTable
    /\ df' = NoTable
    /\ duplicates_removed' = 0
    /\ missing_imputed' = 0
    /\ outliers_handled' = 0
    /\ health_score' = <<>>
    /\ figures' = <<>>

\* One run of the script, lines 58-108, for whatever the uploader then holds:
\* a new file, the same file (any other interaction re-runs the script) or
\* nothing.  pc' tells how the run ended: "waiting" without a file, "tabs" when
\* line 108 rendered the result tabs, "load_error" when only st.error was
\* shown, "exception" when a call raised and the run stopped there.
ScriptRun ==
    \E file \in {<<>>} \cup {<<f>> : f \in Files} :
        /\ uploaded_file' = file
        /\ pass' = pass
        /\ IF file = <<>>
           THEN pc' = "waiting" /\ NoLocals /\ UNCHANGED session_state
           ELSE IF ~session_state.data_processed
                   \/ session_state.uploaded_file_name # <<file[1].name>>
           THEN LET named == [session_state EXCEPT !.uploaded_file_name = <<file[1].name>>]
                    loaded == load_data(file[1])
                IN  IF loaded.err
                    THEN /\ session_state' = named
                         /\ NoLocals
                         /\ pc' = IF named.data_processed THEN "tabs" ELSE "load_error"
                    ELSE \E run \in {Process(loaded.df[1])} :
                         /\ df_raw' = loaded.df[1]
                         /\ df' = run.results.df_clean
                         /\ duplicates_removed' = run.results.etl_stats.duplicates_removed
                         /\ missing_imputed' = run.results.etl_stats.missing_imputed
                         /\ outliers_handled' = run.results.etl_stats.outliers_handled
                         /\ health_score' = <<run.results.health_score>>
                         /\ figures' = run.results.figures
                         /\ IF run.raised
                            THEN session_state' = named /\ pc' = "exception"
                            ELSE /\ session_state' = [named EXCEPT !.results = <<run.results>>,
                                                                   !.data_processed = TRUE]
                                 /\ pc' = "tabs"
           ELSE pc' = "tabs" /\ NoLocals /\ UNCHANGED session_state

NextApp == ScriptRun

SpecApp == InitApp /\ [][NextApp]_vars

----------------------------------------------------------------------------
(* Properties *)

Cleaned == pc \in {"score", "visuals", "done", "error"}

Scored == pc \in {"visuals", "done", "error", "scored"}

\* the rows of the raw table that equal no earlier row
FirstOccurrences(t) ==
    {i \in 1..NRows(t) : \A j \in 1..(i - 1) : t.rows[j] # t.rows[i]}

\* the table of those rows, in their order
Survivors(t) ==
    LET I == SortSet(FirstOccurrences(t))
    IN  [t EXCEPT !.rows = [k \in 1..Len(I) |-> t.rows[I[k]]]]

\* C1: whenever the health score has been computed from a raw table and the
\* metrics perform_etl produced for it, it lies in [0, 100] (0..1000 tenths).
C1_ScoreInRange ==
    (Scored /\ health_score # <<>>) => (health_score[1] >= 0 /\ health_score[1] <= 1000)

C1_Witness ==
    /\ pc = "visuals"
    /\ missing_imputed > 0 /\ duplicates_removed > 0
    /\ health_score[1] > 0 /\ health_score[1] < 1000

AllZero == duplicates_removed = 0 /\ missing_imputed = 0 /\ outliers_handled = 0

\* C2 as stated: every table whose cleansing reports zero duplicates, zero
\* missing values and zero outliers scores exactly 100.0, whatever its shape.
C2_ZeroMetricsScore100 ==
    (Scored /\ AllZero) => health_score = <<1000>>

\* C2 amended: with zero duplicates, zero missing values and zero outliers a
\* table with at least one row and one column scores exactly 100.0, and a
\* table with no rows or no columns scores 0.
C2_ZeroMetricsScore ==
    (Scored /\ AllZero) =>
        health_score = (IF IsEmpty(df_raw) THEN <<0>> ELSE <<1000>>)

C2_Witness ==
    /\ pc = "visuals" /\ pass = 1 /\ AllZero
    /\ NRows(df_raw) > 1 /\ NCols(df_raw) > 1
    /\ health_score = <<1000>>

\* C3: on the second pass, over the cleaned table of the first, perform_etl
\* reports duplicates_removed = 0 and missing_imputed = 0.
C3_SecondPassFixedPoint ==
    (pass = 2 /\ Cleaned) => (duplicates_removed = 0 /\ missing_imputed = 0)

\* C4: the cleaned table has no missing value in a numeric column.
C4_NoMissingNumeric ==
    Cleaned => \A c \in NumericCols(df) : NullCount(df, c) = 0

\* C5: the capping step leaves every value of every numeric column within the
\* bounds it computed on the imputed column, and outliers_handled is the number
\* of cells that were outside those bounds before the step.
C5_CappedWithinBounds ==
    [][pc = "cap" =>
        /\ \A c \in NumericCols(df) : \A i \in 1..NRows(df) :
              ~isnull(df'.rows[i][c]) =>
                  /\ lower_bound(df, c) # NA /\ upper_bound(df, c) # NA
                  /\ df'.rows[i][c][1] >= lower_bound(df, c)[1]
                  /\ df'.rows[i][c][1] <= upper_bound(df, c)[1]
        /\ outliers_handled' =
              Cardinality({x \in (1..NRows(df)) \X NumericCols(df) :
                  /\ ~isnull(df.rows[x[1]][x[2]])
                  /\ \/ df.rows[x[1]][x[2]][1] < lower_bound(df, x[2])[1]
                     \/ df.rows[x[1]][x[2]][1] > upper_bound(df, x[2])[1]})
        /\ NRows(df') = NRows(df)]_vars

C5_Witness ==
    /\ pc = "score" /\ pass = 1
    /\ outliers_handled > 0
    /\ \E c \in NumericCols(df) : \E i \in 1..NRows(df) :
          df.rows[i][c] # Survivors(df_raw).rows[i][c] /\ ~isnull(Survivors(df_raw).rows[i][c])

\* C6: for a raw table with no rows or no columns nothing raises, perform_etl
\* returns the same columns and rows with all three metrics zero, and
\* generate_visuals returns the empty list.
C6_EmptyInput ==
    IsEmpty(df_raw) =>
        /\ pc # "error"
        /\ Cleaned => (/\ NCols(df) = NCols(df_raw) /\ df.rows = df_raw.rows
                       /\ AllZero)
        /\ pc = "done" => figures = <<>>

\* C7: deduplication keeps the first occurrence of each distinct row in the
\* original order, duplicates_removed is rows before minus rows after, and the
\* later stages count over the surviving rows only.
C7_DedupFirst ==
    /\ pc = "to_datetime" => df = Survivors(df_raw)
    /\ pc # "dedup" =>
          /\ NRows(df) = Cardinality(FirstOccurrences(df_raw))
          /\ duplicates_removed = NRows(df_raw) - NRows(df)
    /\ pc = "dedup" => (missing_imputed = 0 /\ outliers_handled = 0)
    /\ pc \in {"cap"} \cup {"score", "visuals", "done", "error"} =>
          missing_imputed =
            Cardinality({x \in FirstOccurrences(df_raw) \X (1..NCols(df_raw)) :
                           isnull(df_raw.rows[x[1]][x[2]])})
    /\ Cleaned =>
          outliers_handled = CountOutliers(impute(to_datetime(Survivors(df_raw))))

C7_Witness ==
    /\ Cleaned /\ pass = 1
    /\ duplicates_removed > 0
    /\ missing_imputed > 0
    /\ NRows(df) > 1
    /\ CountMissing(df_raw) > missing_imputed

\* C8: with the raw table, duplicates_removed and outliers_handled fixed, a
\* larger missing_imputed never gives a larger score.
C8_MonotoneInMissing ==
    [][(pc = "scored" /\ missing_imputed' > missing_imputed
          /\ UNCHANGED <<df_raw, duplicates_removed, outliers_handled>>)
        => health_score'[1] <= health_score[1]]_vars

C8_Witness ==
    /\ pc = "scored" /\ missing_imputed > 1
    /\ duplicates_removed > 0
    /\ health_score[1] > 0
    /\ health_score[1] < calculate_health_score(df_raw, df,
                              [etl_stats EXCEPT !.missing_imputed = 1])

\* the categorical columns of the cleaned table with a distinct-value count
\* in (1, limit]
Qualifying(limit) ==
    {c \in 1..NCols(df) : df.kinds[c] = "object"
                            /\ nunique(df, c) > 1 /\ nunique(df, c) <= limit}

HasFigure(type, cols) == \E k \in 1..Len(figures) : figures[k] = Fig(type, cols)

\* C9: once generate_visuals has been called on the cleaned table, a bar spec
\* names the first categorical column of maximal distinct-value count among
\* those with a count in (1, 20], and a pie spec names the first of minimal
\* count among those with a count in (1, 5]; in particular both are there,
\* for the same column, when one categorical column qualifies for both.
C9_CategoryRules ==
    pc \in {"done", "error"} =>
        /\ \A c \in Qualifying(bar_max_categories) :
              (\A d \in Qualifying(bar_max_categories) :
                    nunique(df, d) < nunique(df, c)
                    \/ (nunique(df, d) = nunique(df, c) /\ d >= c))
                => HasFigure("bar", <<c>>)
        /\ \A c \in Qualifying(pie_max_categories) :
              (\A d \in Qualifying(pie_max_categories) :
                    nunique(df, d) > nunique(df, c)
                    \/ (nunique(df, d) = nunique(df, c) /\ d >= c))
                => HasFigure("pie", <<c>>)

\* C10: when the capping step finds a numeric column with IQR zero, it counts
\* none of its values and changes none.
C10_ZeroIqrUntouched ==
    [][pc = "cap" =>
        \A c \in NumericCols(df) :
            (lower_bound(df, c) # NA /\ iqr(df, c) = 0) =>
                /\ Col(df', c) = Col(df, c)
                /\ outliers_handled' = SumOver(NumericCols(df) \ {c},
                        [d \in NumericCols(df) \ {c} |-> outliers_count(df, d)])]_vars

\* the most frequent value of a column that occurs first in row order
FirstMostFrequent(cells) ==
    LET present == {i \in 1..Len(cells) : ~isnull(cells[i])}
        top(i) == \A j \in present : Count(cells, cells[j][1]) <= Count(cells, cells[i][1])
        first == CHOOSE i \in present : top(i) /\ \A j \in present : top(j) => i <= j
    IN  cells[first][1]

\* C11: when the imputation step fills a categorical or temporal column that
\* has a value, every missing cell of the column receives the most frequent
\* value, and among tied most frequent values the one first in row order.
C11_ModeTieFirstInRowOrder ==
    [][pc = "impute" =>
        \A c \in 1..NCols(df) :
            (df.kinds[c] \in {"object", "datetime"} /\ Present(Col(df, c)) # <<>>) =>
                \A i \in 1..NRows(df) :
                    isnull(df.rows[i][c]) =>
                        df'.rows[i][c] = <<FirstMostFrequent(Col(df, c))>>]_vars

\* the pairs of distinct numeric columns of the cleaned table, each once, whose
\* correlation is a number
CorrelatedPairs ==
    {p \in NumericCols(df) \X NumericCols(df) : p[1] < p[2] /\ CorrDefined(df, p[1], p[2])}

\* |corr| of the pair p is less than |corr| of the pair q
WeakerPair(p, q) ==
    FracLess(CorrSq(df, p[1], p[2])[1], CorrSq(df, p[1], p[2])[2],
             CorrSq(df, q[1], q[2])[1], CorrSq(df, q[1], q[2])[2])

\* p comes before q in column order
EarlierPair(p, q) == p[1] < q[1] \/ (p[1] = q[1] /\ p[2] < q[2])

\* C12: once generate_visuals has returned for a cleaned table with two numeric
\* columns or more, there is a scatter spec for the pair of distinct columns of
\* maximal absolute correlation, the first such pair in column order; a pair
\* of absolute correlation exactly 1 takes part like any other.
C12_StrongestPairScatter ==
    (pc = "done" /\ Cardinality(NumericCols(df)) >= 2) =>
        \A p \in CorrelatedPairs :
            (\A q \in CorrelatedPairs :
                  /\ ~WeakerPair(p, q)
                  /\ (EarlierPair(q, p) => WeakerPair(q, p)))
              => HasFigure("scatter", p)

\* the fixed evaluation order of the rules of generate_visuals
RuleOrder ==
    <<"heatmap", "histogram", "scatter", "box", "bar", "pie", "violin", "line", "contour">>

Rank(type) == CHOOSE k \in 1..Len(RuleOrder) : RuleOrder[k] = type

FiguresOfType(type) == {k \in 1..Len(figures) : figures[k].type = type}

\* C13: the list generate_visuals returned holds kinds of the fixed order only,
\* in that order and each at most once; it has a contour spec exactly when it
\* has a scatter spec, and both are for the same pair of columns.
C13_FixedOrderAndContour ==
    pc = "done" =>
        /\ \A k \in 1..Len(figures) : \E r \in 1..Len(RuleOrder) : RuleOrder[r] = figures[k].type
        /\ \A j, k \in 1..Len(figures) :
              j < k => Rank(figures[j].type) < Rank(figures[k].type)
        /\ FiguresOfType("scatter") # {} <=> FiguresOfType("contour") # {}
        /\ \A j \in FiguresOfType("scatter") : \A k \in FiguresOfType("contour") :
              figures[j].cols = figures[k].cols

C13_Witness ==
    /\ pc = "done"
    /\ Len(figures) = Len(RuleOrder)
    /\ \E j \in FiguresOfType("scatter") : \E k \in FiguresOfType("contour") :
          j < k /\ figures[j].cols = <<1, 2>> /\ figures[k].cols = <<1, 2>>

\* C14: whenever a run of the script renders the result tabs, the file in the
\* uploader can be read and the stored df_clean, etl_stats, stats_df,
\* health_score and figures are those computed from that file.
C14_CacheFollowsUpload ==
    pc = "tabs" =>
        /\ uploaded_file # <<>>
        /\ ~load_data(uploaded_file[1]).err
        /\ session_state.results = <<Process(load_data(uploaded_file[1]).df[1]).results>>

====
